---- MODULE Spec2Model ----
(***************************************************************************)
(* Model of bin/texture.js: the texture compiler process.  The process     *)
(* parses its command line, runs one build when started stand-alone, and   *)
(* runs compiler_build for every 'build' event of the DataCompiler.        *)
(* JavaScript handlers run to completion: signal and 'build' callbacks are *)
(* dispatched by the event loop only, never in the middle of a handler.    *)
(* compiler_build is split into one step per call it makes, so that the    *)
(* order of the calls and the exits in the middle of it are visible.       *)
(***************************************************************************)
EXTENDS Integers, Sequences, FiniteSets, TLC

\* ------------------------------------------------------------------ bounds
MaxBuilds == 2            \* 'build' events delivered in one run

\* --------------------------------------------------------------- constants
SUCCESS        == 0       \* exit_code.SUCCESS
ERROR          == 1       \* exit_code.ERROR
FILE_NOT_FOUND == 2       \* exit_code.FILE_NOT_FOUND
version        == 1       \* application.version
NodeFatalExit  == 1       \* exit code of node for an exception nobody caught

\* ------------------------------------------------------------------- paths
\* A path is its directory, the file name without extension, and the
\* extension.  The empty string '' is a path with all three parts empty.
Path(d, n, e) == [dir |-> d, name |-> n, ext |-> e]
NoPath        == Path("", "", "")
Cwd           == "/work"                       \* process.cwd()
ScriptPath    == Path("/bin", "texture", "js") \* process.argv[1]

\* files on disk when the process starts
ExistingFiles == {Path("", "photo", "png"), Path("/src", "photo", "png")}

\* values of --input, --output, --target
Inputs  == {NoPath, Path("", "photo", "png"), Path("/src", "photo", "png"),
            Path("", "missing", "png")}
Outputs == {NoPath, Path("/out", "tex", "pixels")}
Targets == {"", "ios"}

\* payloads of 'build' events
EventSources == {Path("/src", "photo", "png"), Path("/src", "missing", "png")}
EventTargets == {Path("/out", "photo", ""), Path("/out", "icon", "")}
EventPlatforms == {"generic"}

isFile(p)             == p \in ExistingFiles
changeExtension(p, e) == [p EXCEPT !.ext = e]
basename(p)           == [p EXCEPT !.dir = ""]
join(d, f)            == [f EXCEPT !.dir = d]

\* ---------------------------------------------------------- event emitters
\* The event names this script registers a listener for.
Registered == {"build", "unhandledException", "SIGTERM", "SIGINT"}
\* The event node emits on process when an exception escapes every handler.
UncaughtEvent == "uncaughtException"

\* ------------------------------------------------------------------- state
VARIABLES
    Program,    \* the parsed command line (commander)
    args,       \* application.args
    pc,         \* where the process is
    input,      \* compiler_build: the input argument
    mpath,      \* compiler_build: var mpath
    ppath,      \* compiler_build: var ppath
    md,         \* compiler_build: var md
    error,      \* the exception in flight, caught or not
    builds,     \* the build states of the DataCompiler, the last is `state`
    fs,         \* the sidecar files on disk: pairs <<path, "full" | "partial">>
    stdout,     \* console.log lines
    stderr,     \* console.error lines
    signal,     \* a signal delivered to the process and not yet dispatched
    events,     \* number of 'build' events dispatched so far
    exitCode,   \* the exit code, -1 while the process runs
    exitVia,    \* the statement that ended the process
    applicationVersion, \* application.version
    queued      \* 'build' events the transport has delivered, not yet dispatched

vars == <<Program, args, pc, input, mpath, ppath, md, error, builds, fs,
          stdout, stderr, signal, events, exitCode, exitVia,
          applicationVersion, queued>>

\* application.args = {} : persistent is undefined, which reads as false
NoArgs  == [persistent |-> FALSE, sourcePath |-> NoPath,
            targetPath |-> NoPath, platform |-> ""]
NoInput == [sourcePath |-> NoPath, targetPath |-> NoPath,
            platform |-> "", isIPC |-> FALSE]

exited == pc = "exited"

Init ==
    /\ Program \in [persistent : BOOLEAN, input : Inputs,
                    output : Outputs, target : Targets]
    /\ args     = NoArgs
    /\ pc       = "main"
    /\ input    = NoInput
    /\ mpath    = NoPath
    /\ ppath    = NoPath
    /\ md       = "none"
    /\ error    = "none"
    /\ builds   = <<>>
    /\ fs       = {}
    /\ stdout   = <<>>
    /\ stderr   = <<>>
    /\ signal   = "none"
    /\ events   = 0
    /\ exitCode = -1
    /\ exitVia  = "none"
    /\ applicationVersion = version
    /\ queued   = 0

\* process.exit(code) at the statement `via`
Exit(code, via) ==
    /\ pc'       = "exited"
    /\ exitCode' = code
    /\ exitVia'  = via

\* a call of compiler_build(req): fresh locals, control at its first line
Call(req) ==
    /\ input' = req
    /\ mpath' = NoPath
    /\ ppath' = NoPath
    /\ md'    = "none"
    /\ error' = "none"
    /\ pc'    = "startBuild"

\* ------------------------------------------------------------ command_line
\* command_line without the isFile check of lines 65-70
command_line_NoCheck(prog) ==
    IF prog.persistent
    THEN [exits |-> FALSE, output |-> prog.output,
          args  |-> [persistent |-> TRUE, sourcePath |-> ScriptPath,
                     targetPath |-> ScriptPath, platform |-> ""]]
    ELSE LET out == IF prog.output = NoPath
                    THEN join(Cwd, changeExtension(basename(prog.input),
                                                   "pixels"))
                    ELSE prog.output
         IN  [exits |-> FALSE, output |-> out,
              args  |-> [persistent |-> FALSE, sourcePath |-> prog.input,
                         targetPath |-> out, platform |-> prog.target]]

\* command_line with the isFile check made before the test of the flag
command_line_CheckFirst(prog) ==
    IF ~isFile(prog.input)
    THEN [exits |-> TRUE, output |-> prog.output, args |-> NoArgs]
    ELSE IF prog.persistent
    THEN [exits |-> FALSE, output |-> prog.output,
          args  |-> [persistent |-> TRUE, sourcePath |-> ScriptPath,
                     targetPath |-> ScriptPath, platform |-> ""]]
    ELSE LET out == IF prog.output = NoPath
                    THEN join(Cwd, changeExtension(basename(prog.input),
                                                   "pixels"))
                    ELSE prog.output
         IN  [exits |-> FALSE, output |-> out,
              args  |-> [persistent |-> FALSE, sourcePath |-> prog.input,
                         targetPath |-> out, platform |-> prog.target]]

\* The object command_line returns, or the fact that it exits.
command_line(prog) ==
    IF prog.persistent
    THEN [exits |-> FALSE, output |-> prog.output,
          args  |-> [persistent |-> TRUE, sourcePath |-> ScriptPath,
                     targetPath |-> ScriptPath, platform |-> ""]]
    ELSE IF ~isFile(prog.input)
    THEN [exits |-> TRUE, output |-> prog.output, args |-> NoArgs]
    ELSE LET out == IF prog.output = NoPath
                    THEN join(Cwd, changeExtension(basename(prog.input),
                                                   "pixels"))
                    ELSE prog.output
         IN  [exits |-> FALSE, output |-> out,
              args  |-> [persistent |-> FALSE, sourcePath |-> prog.input,
                         targetPath |-> out, platform |-> prog.target]]

\* Main: application.args = command_line(); one build unless persistent.
Main ==
    /\ pc = "main"
    /\ LET r == command_line(Program) IN
       IF r.exits
       THEN /\ stdout' = stdout \o
                  <<"Error: No input file specified or input file not found.",
                    "">>
            /\ Exit(FILE_NOT_FOUND, "command_line")
            /\ UNCHANGED <<Program, args, input, mpath, ppath, md, error>>
       ELSE /\ Program' = [Program EXCEPT !.output = r.output]
            /\ args'    = r.args
            /\ IF r.args.persistent = FALSE
               THEN Call([sourcePath |-> r.args.sourcePath,
                          targetPath |-> r.args.targetPath,
                          platform   |-> r.args.platform,
                          isIPC      |-> FALSE])
               ELSE /\ pc' = "idle"
                    /\ UNCHANGED <<input, mpath, ppath, md, error>>
            /\ UNCHANGED <<stdout, exitCode, exitVia>>
    /\ UNCHANGED <<applicationVersion, queued, builds, fs, stderr, signal,
                   events>>

\* ------------------------------------------------- DataCompiler build state
\* a startBuild that hands out the errors of the build before
NewState_Carry(req) ==
    [request |-> req, outputs |-> <<>>,
     errors |-> IF builds = <<>> THEN <<>> ELSE builds[Len(builds)].errors,
     open |-> TRUE, finished |-> 0, violations |-> 0,
     compile |-> "none", write |-> "none", trace |-> <<"startBuild">>]

\* The object startBuild returns.  compile, write and trace are history:
\* the outcome of the two steps of the try block and the calls made so far.
NewState(req) ==
    [request |-> req, outputs |-> <<>>, errors |-> <<>>, open |-> TRUE,
     finished |-> 0, violations |-> 0,
     compile |-> "none", write |-> "none", trace |-> <<"startBuild">>]

\* state.addOutput(path): appends while the state is open
addOutput(s, path) ==
    IF s.open
    THEN [s EXCEPT !.outputs = Append(@, path),
                   !.trace   = Append(@, "addOutput")]
    ELSE [s EXCEPT !.violations = @ + 1]

\* addError that records the call and loses the error
addError_Drop(s, err) ==
    IF s.open
    THEN [s EXCEPT !.trace = Append(@, "addError")]
    ELSE [s EXCEPT !.violations = @ + 1]

\* addError that records the error twice
addError_Twice(s, err) ==
    IF s.open
    THEN [s EXCEPT !.errors = Append(Append(@, err), err),
                   !.trace  = Append(@, "addError")]
    ELSE [s EXCEPT !.violations = @ + 1]

\* state.addError(err): appends while the state is open
addError(s, err) ==
    IF s.open
    THEN [s EXCEPT !.errors = Append(@, err),
                   !.trace  = Append(@, "addError")]
    ELSE [s EXCEPT !.violations = @ + 1]

\* DataCompiler.finishBuild(state): closes the state
finishBuild(s) ==
    [s EXCEPT !.open = FALSE, !.finished = @ + 1,
              !.trace = Append(@, "finishBuild")]

\* the local variable `state` of the running compiler_build
cur       == Len(builds)
state     == builds[cur]
SetState(s) == builds' = [builds EXCEPT ![cur] = s]
Traced(s, call) == [s EXCEPT !.trace = Append(@, call)]

\* an exception leaves the handler: nothing on the stack catches it
Throw(err) ==
    /\ error' = err
    /\ pc'    = "uncaught"

\* ---------------------------------------------------------- compiler_build
\* var state = DataCompiler.startBuild(input);
StartBuild ==
    /\ pc = "startBuild"
    /\ \/ /\ builds' = Append(builds, NewState(input))
          /\ pc'     = "parseResourcePath"
          /\ UNCHANGED error
       \/ /\ Throw("StartBuildError")
          /\ UNCHANGED builds
    /\ UNCHANGED <<applicationVersion, queued, Program, args, input, mpath,
                   ppath, md, fs, stdout,
                   stderr, signal, events, exitCode, exitVia>>

\* mpath taken from the target path without the change of extension
ParseResourcePath_KeepsExt ==
    /\ pc = "parseResourcePath"
    /\ \/ /\ mpath' = input.targetPath
          /\ ppath' = input.targetPath
          /\ pc'    = "compile"
          /\ UNCHANGED error
       \/ /\ Throw("ParseResourcePathError")
          /\ UNCHANGED <<mpath, ppath>>
    /\ UNCHANGED <<applicationVersion, queued, Program, args, input, md,
                   builds, fs, stdout, stderr, signal, events, exitCode,
                   exitVia>>

\* var rinfo = ...; var mpath = ...; var ppath = ...;
ParseResourcePath ==
    /\ pc = "parseResourcePath"
    /\ \/ /\ mpath' = changeExtension(input.targetPath, "texture")
          /\ ppath' = input.targetPath
          /\ pc'    = "compile"
          /\ UNCHANGED error
       \/ /\ Throw("ParseResourcePathError")
          /\ UNCHANGED <<mpath, ppath>>
    /\ UNCHANGED <<applicationVersion, queued, Program, args, input, md,
                   builds, fs, stdout, stderr,
                   signal, events, exitCode, exitVia>>

\* What TextureCompiler.compile can do with a source path: a source that is
\* not a file cannot be read; a file may still be malformed or unsupported.
CompileOutcomes(src) ==
    IF isFile(src) THEN {"ok", "failed"} ELSE {"failed"}

\* try { var md = TextureCompiler.compile({...});
Compile ==
    /\ pc = "compile"
    /\ \E r \in CompileOutcomes(input.sourcePath) :
          /\ SetState(Traced([state EXCEPT !.compile = r], "compile"))
          /\ IF r = "ok"
             THEN /\ md' = "metadata"
                  /\ pc' = "write"
                  /\ UNCHANGED error
             ELSE /\ error' = "CompilationError"
                  /\ pc'    = "addError"
                  /\ UNCHANGED md
    /\ UNCHANGED <<applicationVersion, queued, Program, args, input, mpath,
                   ppath, fs, stdout, stderr,
                   signal, events, exitCode, exitVia>>

\* Filesystem.writeFileSync(path, json, 'utf8') replaces the file
WriteFile(path, content) ==
    {f \in fs : f[1] # path} \cup {<<path, content>>}

\* write_texture_metadata(mpath, md);  a failed writeFileSync has either not
\* touched the file or left it truncated.
WriteTextureMetadata ==
    /\ pc = "write"
    /\ \/ /\ fs' = WriteFile(mpath, "full")
          /\ SetState(Traced([state EXCEPT !.write = "ok"], "write"))
          /\ pc' = "addOutput1"
          /\ UNCHANGED error
       \/ /\ fs' \in {fs, WriteFile(mpath, "partial")}
          /\ SetState(Traced([state EXCEPT !.write = "failed"], "write"))
          /\ error' = "MetadataWriteError"
          /\ pc'    = "addError"
    /\ UNCHANGED <<applicationVersion, queued, Program, args, input, mpath,
                   ppath, md, stdout, stderr,
                   signal, events, exitCode, exitVia>>

\* the build finished right after the first addOutput
AddOutputMeta_Finishes ==
    /\ pc = "addOutput1"
    /\ SetState(finishBuild(addOutput(state, mpath)))
    /\ pc' = "addOutput2"
    /\ UNCHANGED <<applicationVersion, queued, Program, args, input, mpath,
                   ppath, md, error, fs, stdout, stderr, signal, events,
                   exitCode, exitVia>>

\* state.addOutput(mpath);
AddOutputMeta ==
    /\ pc = "addOutput1"
    /\ SetState(addOutput(state, mpath))
    /\ pc' = "addOutput2"
    /\ UNCHANGED <<applicationVersion, queued, Program, args, input, mpath,
                   ppath, md, error, fs, stdout,
                   stderr, signal, events, exitCode, exitVia>>

\* the second addOutput left out
AddOutputPayload_Skip ==
    /\ pc = "addOutput2"
    /\ pc' = "finishBuild"
    /\ UNCHANGED <<applicationVersion, queued, Program, args, input, mpath,
                   ppath, md, error, builds, fs,
                   stdout, stderr, signal, events, exitCode, exitVia>>

\* state.addOutput(ppath); }
AddOutputPayload ==
    /\ pc = "addOutput2"
    /\ SetState(addOutput(state, ppath))
    /\ pc' = "finishBuild"
    /\ UNCHANGED <<applicationVersion, queued, Program, args, input, mpath,
                   ppath, md, error, fs, stdout,
                   stderr, signal, events, exitCode, exitVia>>

\* the catch block returning in persistent mode, before finishBuild
AddError_ReturnsEarly ==
    /\ pc = "addError"
    /\ SetState(addError(state, error))
    /\ pc' = IF ~args.persistent THEN "report" ELSE "idle"
    /\ UNCHANGED <<applicationVersion, queued, Program, args, input, mpath,
                   ppath, md, error, fs, stdout,
                   stderr, signal, events, exitCode, exitVia>>

\* the catch block without the test of application.args.persistent
AddError_AlwaysExits ==
    /\ pc = "addError"
    /\ SetState(addError(state, error))
    /\ pc' = "report"
    /\ UNCHANGED <<applicationVersion, queued, Program, args, input, mpath,
                   ppath, md, error, fs, stdout,
                   stderr, signal, events, exitCode, exitVia>>

\* the catch block deciding the exit by input.isIPC
AddError_ByIsIPC ==
    /\ pc = "addError"
    /\ SetState(addError(state, error))
    /\ pc' = IF ~input.isIPC THEN "report" ELSE "finishBuild"
    /\ UNCHANGED <<applicationVersion, queued, Program, args, input, mpath,
                   ppath, md, error, fs, stdout, stderr, signal, events,
                   exitCode, exitVia>>

\* catch (error) { state.addError(error); if (!application.args.persistent)
AddError ==
    /\ pc = "addError"
    /\ SetState(addError(state, error))
    /\ pc' = IF ~args.persistent THEN "report" ELSE "finishBuild"
    /\ UNCHANGED <<applicationVersion, queued, Program, args, input, mpath,
                   ppath, md, error, fs, stdout,
                   stderr, signal, events, exitCode, exitVia>>

ErrorLine(err) ==
    IF err = "CompilationError" THEN "  CompilationError"
    ELSE IF err = "MetadataWriteError" THEN "  MetadataWriteError"
    ELSE "  Error"

\* the exit without the console.error lines
ReportError_Silent ==
    /\ pc = "report"
    /\ Exit(ERROR, "compiler_build")
    /\ UNCHANGED <<applicationVersion, queued, Program, args, input, mpath,
                   ppath, md, error, builds, fs,
                   stdout, stderr, signal, events>>

\* the exit with the success code
ReportError_ExitSuccess ==
    /\ pc = "report"
    /\ stderr' = stderr \o <<"An error has occurred:", ErrorLine(error), "">>
    /\ Exit(SUCCESS, "compiler_build")
    /\ UNCHANGED <<applicationVersion, queued, Program, args, input, mpath,
                   ppath, md, error, builds, fs,
                   stdout, signal, events>>

\* { console.error(...); process.exit(exit_code.ERROR); } }
ReportError ==
    /\ pc = "report"
    /\ stderr' = stderr \o <<"An error has occurred:", ErrorLine(error), "">>
    /\ Exit(ERROR, "compiler_build")
    /\ UNCHANGED <<applicationVersion, queued, Program, args, input, mpath,
                   ppath, md, error, builds, fs,
                   stdout, signal, events>>

\* a finishBuild step that counts the builds in application.version
FinishBuild_BumpsVersion ==
    /\ pc = "finishBuild"
    /\ \/ /\ SetState(finishBuild(state))
          /\ pc' = "idle"
          /\ applicationVersion' = applicationVersion + 1
          /\ UNCHANGED error
       \/ /\ Throw("FinishBuildError")
          /\ UNCHANGED <<builds, applicationVersion>>
    /\ UNCHANGED <<queued, Program, args, input, mpath, ppath, md, fs,
                   stdout, stderr, signal, events, exitCode, exitVia>>

\* DataCompiler.finishBuild(state); and the return to the event loop
FinishBuild ==
    /\ pc = "finishBuild"
    /\ \/ /\ SetState(finishBuild(state))
          /\ pc' = "idle"
          /\ UNCHANGED error
       \/ /\ Throw("FinishBuildError")
          /\ UNCHANGED builds
    /\ UNCHANGED <<applicationVersion, queued, Program, args, input, mpath,
                   ppath, md, fs, stdout,
                   stderr, signal, events, exitCode, exitVia>>

\* -------------------------------------------------------- DataCompiler.on
\* The transport delivers a 'build' event, at any moment of a running
\* process; the event waits for the event loop to dispatch it.
Deliver ==
    /\ ~exited
    /\ events + queued < MaxBuilds
    /\ queued' = queued + 1
    /\ UNCHANGED <<applicationVersion, Program, args, pc, input, mpath, ppath,
                   md, error, builds, fs, stdout, stderr, signal, events,
                   exitCode, exitVia>>

\* DataCompiler.queryCompilerVersion = function () { return ...; };
queryCompilerVersion == applicationVersion

\* the 'build' listener with the isFile check of command_line before the call
BuildEvent_PreCheck ==
    /\ pc = "idle"
    /\ "build" \in Registered
    /\ queued > 0
    /\ queued' = queued - 1
    /\ events' = events + 1
    /\ \E src \in EventSources, tgt \in EventTargets, plat \in EventPlatforms :
          IF isFile(src)
          THEN /\ Call([sourcePath |-> src, targetPath |-> tgt,
                        platform |-> plat, isIPC |-> TRUE])
               /\ UNCHANGED <<exitCode, exitVia>>
          ELSE /\ Exit(FILE_NOT_FOUND, "command_line")
               /\ UNCHANGED <<input, mpath, ppath, md, error>>
    /\ UNCHANGED <<applicationVersion, Program, args, builds, fs, stdout,
                   stderr, signal>>

\* a 'build' listener that runs as soon as the event is delivered, inside
\* whatever the process is doing
BuildEvent_Reentrant ==
    /\ pc \notin {"main", "exited", "uncaught"}
    /\ "build" \in Registered
    /\ queued > 0
    /\ queued' = queued - 1
    /\ events' = events + 1
    /\ \E src \in EventSources, tgt \in EventTargets, plat \in EventPlatforms :
          Call([sourcePath |-> src, targetPath |-> tgt,
                platform |-> plat, isIPC |-> TRUE])
    /\ UNCHANGED <<applicationVersion, Program, args, builds, fs, stdout,
                   stderr, signal, exitCode, exitVia>>

\* DataCompiler.on('build', function (data) { compiler_build({...}); });
BuildEvent ==
    /\ pc = "idle"
    /\ "build" \in Registered
    /\ queued > 0
    /\ queued' = queued - 1
    /\ events' = events + 1
    /\ \E src \in EventSources, tgt \in EventTargets, plat \in EventPlatforms :
          Call([sourcePath |-> src, targetPath |-> tgt,
                platform |-> plat, isIPC |-> TRUE])
    /\ UNCHANGED <<applicationVersion, Program, args, builds, fs, stdout,
                   stderr, signal, exitCode, exitVia>>

\* ------------------------------------------------------------- process.on
\* An exception that escaped: node emits UncaughtEvent on process.  With a
\* listener for it the listener runs; with none node prints the stack trace
\* and exits.  process.on('unhandledException', ...) is lines 179-185.
UncaughtException ==
    /\ pc = "uncaught"
    /\ IF UncaughtEvent \in Registered
       THEN /\ stderr' = stderr \o
                  <<"An unhandled exception has occurred:", "  Error: ", "">>
            /\ Exit(ERROR, "unhandledException")
       ELSE /\ stderr' = stderr \o <<"stack trace">>
            /\ Exit(NodeFatalExit, "node")
    /\ UNCHANGED <<applicationVersion, queued, Program, args, input, mpath,
                   ppath, md, error, builds, fs,
                   stdout, signal, events>>

\* the operating system delivers a signal; its listener runs from the loop
Kill ==
    /\ ~exited
    /\ signal = "none"
    /\ signal' \in {"SIGTERM", "SIGINT"}
    /\ UNCHANGED <<applicationVersion, queued, Program, args, pc, input,
                   mpath, ppath, md, error, builds,
                   fs, stdout, stderr, events, exitCode, exitVia>>

\* the SIGTERM listener exiting with the error code
OnSIGTERM_ExitError ==
    /\ pc = "idle"
    /\ signal = "SIGTERM"
    /\ "SIGTERM" \in Registered
    /\ Exit(ERROR, "SIGTERM")
    /\ UNCHANGED <<applicationVersion, queued, Program, args, input, mpath,
                   ppath, md, error, builds, fs,
                   stdout, stderr, signal, events>>

\* process.on('SIGTERM', function () { process.exit(exit_code.SUCCESS); });
OnSIGTERM ==
    /\ pc = "idle"
    /\ signal = "SIGTERM"
    /\ "SIGTERM" \in Registered
    /\ Exit(SUCCESS, "SIGTERM")
    /\ UNCHANGED <<applicationVersion, queued, Program, args, input, mpath,
                   ppath, md, error, builds, fs,
                   stdout, stderr, signal, events>>

\* process.on('SIGINT', function () { process.exit(exit_code.SUCCESS); });
OnSIGINT ==
    /\ pc = "idle"
    /\ signal = "SIGINT"
    /\ "SIGINT" \in Registered
    /\ Exit(SUCCESS, "SIGINT")
    /\ UNCHANGED <<applicationVersion, queued, Program, args, input, mpath,
                   ppath, md, error, builds, fs,
                   stdout, stderr, signal, events>>

\* Started stand-alone, the process ends with the success code once Main has
\* returned and the event loop has nothing left to dispatch.
LoopEmpty ==
    /\ pc = "idle"
    /\ ~args.persistent
    /\ queued = 0
    /\ Exit(SUCCESS, "end")
    /\ UNCHANGED <<applicationVersion, queued, Program, args, input, mpath,
                   ppath, md, error, builds, fs,
                   stdout, stderr, signal, events>>

\* the steps of compiler_build
BuildStep ==
    \/ StartBuild
    \/ ParseResourcePath
    \/ Compile
    \/ WriteTextureMetadata
    \/ AddOutputMeta
    \/ AddOutputPayload
    \/ AddError
    \/ ReportError
    \/ FinishBuild

Next ==
    \/ Main
    \/ StartBuild
    \/ ParseResourcePath
    \/ Compile
    \/ WriteTextureMetadata
    \/ AddOutputMeta
    \/ AddOutputPayload
    \/ AddError
    \/ ReportError
    \/ FinishBuild
    \/ Deliver
    \/ BuildEvent
    \/ UncaughtException
    \/ Kill
    \/ OnSIGTERM
    \/ OnSIGINT
    \/ LoopEmpty

Spec == Init /\ [][Next]_vars

\* The synchronous code of a handler keeps running once it has started
\* (every call it makes returns or throws); what the event loop dispatches,
\* and when, is left to the environment.
FairSpec ==
    Spec /\ WF_vars(Main) /\ WF_vars(BuildStep) /\ WF_vars(UncaughtException)

\* ------------------------------------------------------------- vocabulary
Builds      == 1..Len(builds)
StandAlone  == ~Program.persistent
Signals     == {"SIGTERM", "SIGINT"}
\* compiler_build is between its startBuild and its return or exit
Running     == pc \in {"parseResourcePath", "compile", "write", "addOutput1",
                       "addOutput2", "addError", "report", "finishBuild"}
BuildOpen   == cur > 0 /\ state.open
MetaPath(b) == changeExtension(b.request.targetPath, "texture")
InSeq(x, q) == \E k \in 1..Len(q) : q[k] = x

\* ---------------------------------------------------------------------- C1
\* C1 (as claimed, on the success and failure paths it names, where no
\* exception escapes compiler_build): every build state opened by startBuild
\* is finished exactly once; the process never terminates, and never starts
\* another build, with a state that was opened and not finished.
C1_EveryStateFinishedOnce ==
    /\ \A i \in Builds : builds[i].finished <= 1
    /\ ((exited /\ exitVia # "node") \/ pc = "startBuild") =>
          \A i \in Builds : builds[i].finished = 1

\* C1 (amended): a state is finished at most once, it is closed exactly when
\* it has been finished, and it has been finished exactly once whenever
\* compiler_build has returned, so no build starts over an open state; a
\* state is left open for good only when the process ends inside
\* compiler_build: at its process.exit (stand-alone failure) or at an
\* exception that escapes it.
C1_FinishedOnReturn ==
    \A i \in Builds :
        /\ builds[i].finished <= 1
        /\ builds[i].open <=> builds[i].finished = 0
        /\ (i < cur \/ pc \in {"idle", "startBuild"}) =>
              builds[i].finished = 1
        /\ (exited /\ builds[i].finished = 0) =>
              /\ i = cur
              /\ exitVia \in {"compiler_build", "node", "unhandledException"}
              /\ exitVia = "compiler_build" =>
                    (~args.persistent /\ builds[i].errors # <<>>)

\* a failed build was finished and the next build has started
C1_Witness ==
    /\ Len(builds) = 2
    /\ builds[1].errors # <<>>
    /\ builds[1].finished = 1
    /\ builds[2].open

\* ---------------------------------------------------------------------- C2
\* C2: in Persistent mode compiler_build never calls process.exit; a failed
\* compile or sidecar write is recorded as the one error of the state, the
\* state reaches finishBuild and is finished with that error, and the
\* process is alive afterwards.
C2_PersistentKeepsRunning ==
    args.persistent =>
        /\ exitVia \notin {"compiler_build", "command_line"}
        /\ \A i \in Builds :
              LET b      == builds[i]
                  failed == b.compile = "failed" \/ b.write = "failed"
                  cause  == IF b.compile = "failed" THEN "CompilationError"
                            ELSE "MetadataWriteError"
              IN  /\ (failed /\ ~(i = cur /\ pc = "addError")) =>
                        b.errors = <<cause>>
                  /\ (failed /\ i = cur /\ Running) =>
                        pc \in {"addError", "finishBuild"}
                  /\ (failed /\ b.finished = 1 /\ exited) =>
                        exitVia \in Signals \cup {"node"}

\* two failed builds in a row, one per kind of failure, both finished
C2_Witness ==
    /\ args.persistent
    /\ pc = "idle"
    /\ Len(builds) = 2
    /\ builds[1].compile = "failed" /\ builds[1].finished = 1
    /\ builds[2].write = "failed"   /\ builds[2].finished = 1

\* ---------------------------------------------------------------------- C3
\* C3: stand-alone, a failed compile ends the process with exit code 1 after
\* the error was written to stderr, and the build never writes a sidecar.
C3_StandAloneCompileFailure ==
    \A i \in Builds :
        (StandAlone /\ builds[i].compile = "failed") =>
            /\ i = cur
            /\ ~InSeq("write", builds[i].trace)
            /\ \A f \in fs : i = 1 \/ f[1] # MetaPath(builds[i])
                                   \/ \E j \in 1..(i-1) :
                                         MetaPath(builds[j]) = f[1]
            /\ pc \in {"addError", "report", "exited"}
            /\ exited =>
                  /\ exitCode = ERROR
                  /\ exitVia = "compiler_build"
                  /\ stderr = <<"An error has occurred:",
                                "  CompilationError", "">>

C3_Witness ==
    /\ StandAlone
    /\ exited
    /\ Len(builds) = 1
    /\ ~builds[1].request.isIPC
    /\ builds[1].compile = "failed"

\* ---------------------------------------------------------------------- C4
\* C4: stand-alone with an input that is not a file, the process exits with
\* code 2 and compiler_build is never called: no state, no compile, no file.
C4_FileNotFound ==
    (StandAlone /\ ~isFile(Program.input) /\ pc # "main") =>
        /\ exited
        /\ exitCode = FILE_NOT_FOUND
        /\ exitVia = "command_line"
        /\ input = NoInput
        /\ builds = <<>>
        /\ fs = {}
        /\ events = 0

C4_Witness ==
    /\ exited
    /\ StandAlone
    /\ Program.input = Path("", "missing", "png")
    /\ exitCode = FILE_NOT_FOUND

\* ---------------------------------------------------------------------- C5
\* C5: a build whose compile and sidecar write succeeded reaches finishBuild,
\* and is finished, with no error and the two outputs metadata path, target
\* path, in that order.
C5_SuccessHasTwoOutputs ==
    \A i \in Builds :
        LET b == builds[i] IN
        (b.write = "ok" /\ ~(i = cur /\ pc \in {"addOutput1", "addOutput2"}))
        =>  /\ b.compile = "ok"
            /\ b.errors  = <<>>
            /\ b.outputs = <<MetaPath(b), b.request.targetPath>>

C5_Witness ==
    \E i \in Builds :
        /\ builds[i].write = "ok"
        /\ builds[i].finished = 1
        /\ Len(builds[i].outputs) = 2

\* ---------------------------------------------------------------------- C6
\* C6: a build whose compile failed has at least one error and no output
\* from the moment the error is recorded: at finishBuild, at process exit.
C6_CompileFailureRecorded ==
    \A i \in Builds :
        LET b == builds[i] IN
        (b.compile = "failed" /\ ~(i = cur /\ pc = "addError")) =>
            /\ Len(b.errors) >= 1
            /\ b.outputs = <<>>

C6_Witness ==
    /\ pc = "finishBuild"
    /\ state.compile = "failed"
    /\ state.errors = <<"CompilationError">>

\* ---------------------------------------------------------------------- C7
\* C7 (as claimed): when an exception escapes compiler_build the listener of
\* lines 179-185 runs: stderr gets "An unhandled exception has occurred:"
\* and the process exits with code 1.
C7_UnhandledIsLogged ==
    (exited /\ error \in {"StartBuildError", "ParseResourcePathError",
                          "FinishBuildError"}) =>
        /\ exitVia = "unhandledException"
        /\ exitCode = ERROR
        /\ InSeq("An unhandled exception has occurred:", stderr)

\* ---------------------------------------------------------------------- C8
\* C8 (as claimed, its safety part): a stand-alone run performs at most one
\* build, exactly one when the input file exists, and exits with 2 when the
\* input file was not found, else 1 when the build recorded an error, else 0.
C8_OneBuildAndExitCode ==
    StandAlone =>
        /\ Len(builds) <= 1
        /\ exited =>
              /\ (exitCode = FILE_NOT_FOUND) <=> ~isFile(Program.input)
              /\ isFile(Program.input) =>
                    /\ Len(builds) = 1
                    /\ exitCode = (IF builds[1].errors # <<>>
                                   THEN ERROR ELSE SUCCESS)

\* what C8's amended statement says of every state
C8_MainInv ==
    StandAlone =>
        /\ Cardinality({i \in Builds : ~builds[i].request.isIPC}) <= 1
        /\ \A i \in Builds : ~builds[i].request.isIPC => i = 1
        /\ (pc # "main" /\ ~isFile(Program.input)) =>
              (exited /\ exitCode = FILE_NOT_FOUND /\ builds = <<>>)
        /\ (pc # "main" /\ isFile(Program.input)) =>
              /\ ~input.isIPC => (events = 0 /\ Len(builds) <= 1)
              /\ (Len(builds) = 0 /\ events = 0) =>
                     pc \in {"startBuild", "uncaught", "exited"}
              /\ exitCode # FILE_NOT_FOUND
        /\ (exited /\ events = 0 /\ isFile(Program.input)) =>
              /\ exitCode \in {SUCCESS, ERROR}
              /\ exitCode = ERROR <=>
                    \/ exitVia = "node"
                    \/ (Len(builds) = 1 /\ builds[1].errors # <<>>)
              /\ exitCode = SUCCESS =>
                    /\ Len(builds) = 1
                    /\ builds[1].finished = 1
                    /\ builds[1].errors = <<>>

\* C8 (amended): stand-alone, Main starts at most one build from the command
\* line, exactly one when the input file exists and none otherwise, and its
\* synchronous run always ends (Main has returned or the process has
\* exited); with no 'build' event dispatched the exit code is 2 when the
\* input file was not found, 1 when the build recorded an error or an
\* exception escaped it, and 0 otherwise, after a build finished without
\* error.  'build' events dispatched after Main has returned start further
\* builds.
C8_MainRunsOneBuild ==
    /\ []C8_MainInv
    /\ <>(Program.persistent \/ pc \in {"idle", "exited"})

C8_Witness ==
    /\ StandAlone
    /\ exited
    /\ exitCode = SUCCESS
    /\ events = 0
    /\ Len(builds) = 1

C10_ModeInv ==
    /\ pc \notin {"main"} =>
          (exitVia = "command_line" \/ args.persistent = Program.persistent)
    /\ (Program.persistent /\ pc # "main") =>
          /\ args = [persistent |-> TRUE, sourcePath |-> ScriptPath,
                     targetPath |-> ScriptPath, platform |-> ""]
          /\ Program.output \in Outputs
          /\ exitVia # "command_line"
          /\ exitCode # FILE_NOT_FOUND
          /\ stdout = <<>>
          /\ input = NoInput \/ input.isIPC
          /\ \A i \in Builds : builds[i].request.isIPC
          /\ Len(builds) <= events

\* C10: the mode is fixed by Main from the persistence flag and never changes
\* afterwards; with the flag, input, output and target are not looked at (no
\* existence check, no exit 2, no derived output), no build is started from
\* the command line, and every build comes from a 'build' event.
C10_ModeFixedAtStartup ==
    /\ []C10_ModeInv
    /\ [][pc # "main" => args' = args]_vars

C10_Witness ==
    /\ Program.persistent
    /\ Program.input = Path("", "missing", "png")
    /\ Program.output = NoPath
    /\ Program.target = "ios"
    /\ pc = "idle"
    /\ Len(builds) = 1

\* --------------------------------------------------------------------- C11
\* C11: in Persistent mode a 'build' event whose source is not a file never
\* ends the process through a process.exit of the script (no exit code 2, no
\* exit of the build); the compile fails, and the finished result of that
\* build has at least one error and no output.
C11_MissingSourceIsBuildError ==
    args.persistent =>
        /\ exitCode # FILE_NOT_FOUND
        /\ exitVia \notin {"command_line", "compiler_build"}
        /\ \A i \in Builds :
              LET b == builds[i] IN
              ~isFile(b.request.sourcePath) =>
                  /\ b.compile # "ok"
                  /\ b.write = "none"
                  /\ (b.compile = "failed" /\ ~(i = cur /\ pc = "addError"))
                        => Len(b.errors) >= 1
                  /\ b.finished = 1 =>
                        (Len(b.errors) >= 1 /\ b.outputs = <<>>)
                  /\ (i = cur /\ exited) => exitVia \in Signals \cup {"node"}

C11_Witness ==
    /\ args.persistent
    /\ pc = "idle"
    /\ Len(builds) = 1
    /\ builds[1].request.sourcePath = Path("/src", "missing", "png")
    /\ builds[1].finished = 1
    /\ builds[1].errors = <<"CompilationError">>

\* --------------------------------------------------------------------- C12
\* the result a build has by its own request and its own two steps
OwnOutputs(b) ==
    IF b.write = "ok"
    THEN <<[b.request.targetPath EXCEPT !.ext = "texture"],
           b.request.targetPath>>
    ELSE <<>>
OwnErrors(b) ==
    IF b.compile = "failed" THEN <<"CompilationError">>
    ELSE IF b.write = "failed" THEN <<"MetadataWriteError">>
    ELSE <<>>

\* what C12 says of every state
C12_FreshInv ==
    \A i \in Builds :
        LET b == builds[i] IN
        /\ (i = cur /\ pc = "parseResourcePath") =>
              /\ b.request = input
              /\ b.outputs = <<>>
              /\ b.errors  = <<>>
              /\ b.open
        /\ b.finished = 1 =>
              /\ b.outputs = OwnOutputs(b)
              /\ b.errors  = OwnErrors(b)

\* C12: every build starts from a fresh state, with no output and no error;
\* the outputs and errors of its finished result are those of its own
\* request and of its own compile and write, whatever earlier builds
\* recorded; and a finished state is never changed by a later build.
C12_BuildsAreIndependent ==
    /\ []C12_FreshInv
    /\ [][\A i \in Builds :
             builds[i].finished = 1 =>
                (Len(builds') >= i /\ builds'[i] = builds[i])]_vars

\* a failed build, then a successful one for another source and target
C12_Witness ==
    /\ Len(builds) = 2
    /\ builds[1].finished = 1
    /\ builds[1].errors # <<>>
    /\ builds[2].finished = 1
    /\ builds[2].errors = <<>>
    /\ Len(builds[2].outputs) = 2
    /\ builds[2].request.sourcePath # builds[1].request.sourcePath
    /\ builds[2].request.targetPath # builds[1].request.targetPath

\* --------------------------------------------------------------------- C13
\* m is the sidecar path of the target path t
IsSidecarOf(m, t) == m.dir = t.dir /\ m.name = t.name /\ m.ext = "texture"
BeyondParse == pc \in {"compile", "write", "addOutput1", "addOutput2",
                       "addError", "report", "finishBuild"}

\* what C13 says of every state
C13_PathsInv ==
    /\ \A i \in Builds :
          LET b == builds[i]
              t == b.request.targetPath
          IN  /\ Len(b.outputs) >= 1 => IsSidecarOf(b.outputs[1], t)
              /\ Len(b.outputs) >= 2 => b.outputs[2] = t
              /\ (i = cur /\ BeyondParse) =>
                    (IsSidecarOf(mpath, t) /\ ppath = t)
              /\ (i = cur /\ pc \in {"addOutput1", "addOutput2"}) =>
                    <<mpath, "full">> \in fs
    /\ \A f \in fs :
          \E i \in Builds : IsSidecarOf(f[1], builds[i].request.targetPath)
    /\ (StandAlone /\ builds # <<>> /\ ~builds[1].request.isIPC
          /\ builds[1].request.sourcePath = Path("/src", "photo", "png")
          /\ builds[1].request.targetPath # Path("/out", "tex", "pixels")) =>
          /\ builds[1].request.targetPath = Path("/work", "photo", "pixels")
          /\ (cur = 1 /\ BeyondParse) =>
                mpath = Path("/work", "photo", "texture")

\* C13: the sidecar is written to, and recorded first as, the target path
\* with its extension replaced by 'texture'; the second output is the target
\* path unchanged; stand-alone with no --output the target path is the base
\* name of the input with extension 'pixels' in the working directory, and
\* an explicit --output is the target path as given.
C13_DerivedPaths ==
    /\ []C13_PathsInv
    /\ [][(pc = "main" /\ pc' # "main" /\ ~Program.persistent
              /\ isFile(Program.input)) =>
             input'.targetPath =
                IF Program.output = NoPath
                THEN [dir |-> Cwd, name |-> Program.input.name,
                      ext |-> "pixels"]
                ELSE Program.output]_vars

\* /src/photo.png in /work: /work/photo.texture, then /work/photo.pixels
C13_Witness ==
    /\ StandAlone
    /\ Len(builds) = 1
    /\ builds[1].finished = 1
    /\ builds[1].request.sourcePath = Path("/src", "photo", "png")
    /\ builds[1].outputs = <<Path("/work", "photo", "texture"),
                             Path("/work", "photo", "pixels")>>
    /\ <<Path("/work", "photo", "texture"), "full">> \in fs

\* --------------------------------------------------------------------- C14
\* C14: queryCompilerVersion returns 1 in every state: before and after
\* builds, successful or failed, in both modes.
C14_VersionIsOne ==
    queryCompilerVersion = 1

\* asked after a failed and a successful build
C14_Witness ==
    /\ queryCompilerVersion = 1
    /\ pc = "idle"
    /\ Len(builds) = 2
    /\ builds[1].finished = 1 /\ builds[1].errors # <<>>
    /\ builds[2].finished = 1 /\ builds[2].errors = <<>>

\* --------------------------------------------------------------------- C15
\* position of the first call named c in the trace q, 0 when there is none
First(c, q) ==
    IF InSeq(c, q) THEN CHOOSE k \in 1..Len(q) :
                            q[k] = c /\ \A j \in 1..(k-1) : q[j] # c
    ELSE 0

\* C15 (as claimed): the sidecar write comes after a successful compile and
\* before any addOutput; when it fails no output is recorded, the failure is
\* recorded as an error of the state, and no partial sidecar file is left.
C15_WriteBeforeOutputsNoPartial ==
    \A i \in Builds :
        LET b == builds[i] IN
        /\ InSeq("write", b.trace) =>
              /\ b.compile = "ok"
              /\ First("compile", b.trace) < First("write", b.trace)
        /\ InSeq("addOutput", b.trace) =>
              /\ b.write = "ok"
              /\ First("write", b.trace) < First("addOutput", b.trace)
        /\ b.write = "failed" =>
              /\ b.outputs = <<>>
              /\ ~(i = cur /\ pc = "addError") =>
                    b.errors = <<"MetadataWriteError">>
              /\ \A f \in fs : f[2] # "partial"

\* --------------------------------------------------------------------- C16
\* C16: no build records more than one error; a failed compile records
\* exactly one, the CompilationError, and the sidecar write is not
\* attempted, in both modes.
C16_OneErrorPerBuild ==
    \A i \in Builds :
        LET b == builds[i] IN
        /\ Len(b.errors) <= 1
        /\ b.compile = "failed" =>
              /\ b.write = "none"
              /\ ~InSeq("write", b.trace)
              /\ ~(i = cur /\ pc = "addError") =>
                    b.errors = <<"CompilationError">>

\* stand-alone, between addError and the exit
C16_Witness ==
    /\ pc = "report"
    /\ ~args.persistent
    /\ state.compile = "failed"
    /\ Len(state.errors) = 1

\* --------------------------------------------------------------------- C17
\* C17: every addOutput and addError on a state comes after its startBuild
\* and before its finishBuild, so no append ever meets a closed state.
C17_AppendOnlyWhileOpen ==
    \A i \in Builds :
        LET q == builds[i].trace IN
        /\ builds[i].violations = 0
        /\ q[1] = "startBuild"
        /\ \A k \in 2..Len(q) : q[k] # "startBuild"
        /\ \A k \in 1..Len(q) :
              q[k] = "finishBuild" => k = Len(q)
        /\ \A k \in 1..Len(q) :
              q[k] \in {"addOutput", "addError"} =>
                 (k > 1 /\ \A j \in 1..k : q[j] # "finishBuild")

\* a finished build of each kind: two outputs, one error
C17_Witness ==
    /\ Len(builds) = 2
    /\ builds[1].trace = <<"startBuild", "compile", "write", "addOutput",
                           "addOutput", "finishBuild">>
    /\ builds[2].trace = <<"startBuild", "compile", "addError",
                           "finishBuild">>

\* --------------------------------------------------------------------- C18
\* what C18 says of every state
C18_OneOpenInv ==
    /\ Cardinality({i \in Builds : builds[i].open}) <= 1
    /\ \A i \in Builds :
          builds[i].open =>
             (i = cur /\ (Running \/ pc \in {"uncaught", "exited"}))

\* C18: at most one build state is open at any moment, and it is the one of
\* the running compiler_build; while compiler_build runs no 'build' event is
\* dispatched and no other state is opened, however many events wait.
C18_BuildsDoNotInterleave ==
    /\ []C18_OneOpenInv
    /\ [][Running => (events' = events /\ input' = input
                      /\ Len(builds') = Len(builds))]_vars

\* an event was delivered while a build of the same process is open
C18_Witness ==
    /\ args.persistent
    /\ pc = "compile"
    /\ BuildOpen
    /\ queued >= 1

\* --------------------------------------------------------------------- C19
\* C19: whether a recorded error ends the process depends on the mode fixed
\* at startup only, not on isIPC: the 'build' listener is registered in both
\* modes, and a build with an error exits with code 1, before finishBuild,
\* exactly when the process was started without the persistence flag.
C19_ExitDecidedByMode ==
    /\ "build" \in Registered
    /\ \A i \in Builds :
          LET b == builds[i] IN
          (b.errors # <<>>) =>
              /\ StandAlone =>
                    /\ i = cur
                    /\ b.finished = 0
                    /\ pc \in {"report", "exited"}
                    /\ exited => (exitVia = "compiler_build"
                                  /\ exitCode = ERROR)
              /\ Program.persistent =>
                    /\ pc # "report"
                    /\ exitVia # "compiler_build"
                    /\ (i = cur /\ Running) => pc = "finishBuild"

\* a failed build from a 'build' event in a process started stand-alone
C19_Witness ==
    /\ StandAlone
    /\ Len(builds) = 2
    /\ builds[2].request.isIPC
    /\ builds[2].errors # <<>>
    /\ exitVia = "compiler_build"
    /\ exitCode = ERROR

====
